---- MODULE Spec2Model ----
(***************************************************************************)
(* Model of the conversation state kept by the useAgent hook               *)
(* (frontend/src/hooks/useAgent.ts): the transcript `messages`, the run    *)
(* flags, the streaming buffer, the error value, and the handlers the      *)
(* AG-UI subscriber and sendMessage apply to them.                         *)
(*                                                                         *)
(* Strings the handlers take apart or join (wire step names, message       *)
(* contents, deltas) are sequences of one-character strings.  A value      *)
(* that may be absent (undefined / null in the source) is None or          *)
(* Some(v).  A message id is a pair <<prefix, number>>: the source builds  *)
(* `assistant-<time>` and `msg-<time>`, and tests only whether an id is    *)
(* empty or contains the word "placeholder".                               *)
(***************************************************************************)
EXTENDS Integers, Sequences, FiniteSets, TLC

VARIABLES
    messages,       \* useState<EnhancedMessage[]>: the transcript
    isRunning,      \* useState(false): the running flag given to callers
    isRunningRef,   \* useRef(false): the running flag read by onMessagesChanged
    streamingText,  \* useState<string | null>
    error,          \* useState<string | null>
    agentMessages,  \* agentRef.current.messages: the agent's own message list
    now,            \* Date.now()
    runs,           \* runAgent() invocations that have not settled yet
    lastEvent,      \* history: the handler that ran last, with its arguments
    prev,           \* history: the transcript the behaviour started from
    deltaLog,       \* history: deltas joined since a delta-only streak began
    runLog,         \* history: the events of the run in progress, in arrival order
    orderLog,       \* history: the orders of ids seen so far, and what was assumed
    encoded,        \* history: the (name, description) the backend encoded last
    input,          \* ChatInput: useState('')
    inputLog,       \* history: the ChatInput handler that ran last, and its onSend call
    pending,        \* React's queue of setMessages updaters that have not run yet
    arrivals        \* history: the handlers applied one by one as they arrived

vars == <<messages, isRunning, isRunningRef, streamingText, error,
          agentMessages, now, runs, lastEvent, prev, deltaLog, runLog,
          orderLog, encoded, input, inputLog, pending, arrivals>>

----------------------------------------------------------------------------
(* Bounds of the model. *)

MaxMsgs == 2        \* longest transcript / authoritative list
MaxSteps == 2       \* longest step list of one message
MaxContentLen == 2  \* longest message content, in characters
MaxClock == 2       \* last value of the clock
MaxRuns == 2        \* most runAgent() calls outstanding at once

----------------------------------------------------------------------------
(* Optional values and strings. *)

None == <<>>

Some(v) == <<v>>

\* JavaScript truthiness of a string that may be absent: present and non-empty.
Truthy(s) == s # None /\ s[1] # <<>>

\* typeof content === 'string'
IsString(content) == content # None

SEPARATOR == <<"|", "|", "|">>

\* Position of the first occurrence of the separator in s, 0 when there is none.
IndexOfSeparator(s) ==
    LET hits == { i \in 1..(Len(s) - 2) : SubSeq(s, i, i + 2) = SEPARATOR }
    IN  IF hits = {} THEN 0 ELSE CHOOSE i \in hits : \A j \in hits : i <= j

RECURSIVE Split(_)
\* String.prototype.split('|||'): the pieces between successive separators.
Split(s) ==
    LET i == IndexOfSeparator(s)
    IN  IF i = 0 THEN <<s>>
        ELSE <<SubSeq(s, 1, i - 1)>> \o Split(SubSeq(s, i + 3, Len(s)))

\* as DecodeName, with the wire field taken whole
DecodeNameUnsplit(wire) == wire

\* parts[0]
DecodeName(wire) == Split(wire)[1]

\* the backend's side of the workaround: name and text joined by the separator
Encode(name, text) == name \o SEPARATOR \o text

\* parts[1] || ''
DecodeText(wire) ==
    LET parts == Split(wire)
    IN  IF Len(parts) >= 2 /\ parts[2] # <<>> THEN parts[2] ELSE <<>>

----------------------------------------------------------------------------
(* Message ids. *)

EmptyId == <<"", 0>>

AssistantId(t) == <<"assistant", t>>

MsgId(t) == <<"msg", t>>

\* msg.id && !msg.id.includes('placeholder')
IsRealId(id) == id # EmptyId /\ id[1] # "placeholder"

----------------------------------------------------------------------------
(* The setMessages updaters of the streaming handlers. *)

\* as NewMessageContent, with ?? in place of ||: an empty buffer wins over the delta
NewMessageContentNullish(newContent, delta) ==
    IF newContent # None THEN newContent[1]
    ELSE IF delta # None THEN delta[1]
    ELSE <<>>

\* newContent || event?.delta || ''
NewMessageContent(newContent, delta) ==
    IF Truthy(newContent) THEN newContent[1]
    ELSE IF Truthy(delta) THEN delta[1]
    ELSE <<>>

\* as UpdatedContent, with the delta put in place of the old content
UpdatedContentOverwriting(content, newContent, delta) ==
    IF Truthy(newContent) THEN Some(newContent[1])
    ELSE IF Truthy(delta) /\ IsString(content) THEN Some(delta[1])
    ELSE content

\* as UpdatedContent, with the delta put in front of the old content
UpdatedContentPrepending(content, newContent, delta) ==
    IF Truthy(newContent) THEN Some(newContent[1])
    ELSE IF Truthy(delta) /\ IsString(content) THEN Some(delta[1] \o content[1])
    ELSE content

\* updatedContent of an existing assistant message
UpdatedContent(content, newContent, delta) ==
    IF Truthy(newContent) THEN Some(newContent[1])
    ELSE IF Truthy(delta) /\ IsString(content) THEN Some(content[1] \o delta[1])
    ELSE content

LastIsAssistant(T) == Len(T) > 0 /\ T[Len(T)].role = "assistant"

\* as TextContentUpdater, with the rewritten message built without its steps
TextContentUpdaterDroppingSteps(T, newContent, delta, t) ==
    IF ~LastIsAssistant(T)
    THEN Append(T, [id |-> AssistantId(t), role |-> "assistant",
                    content |-> Some(NewMessageContent(newContent, delta)),
                    steps |-> None])
    ELSE [T EXCEPT ![Len(T)] =
            [id |-> @.id, role |-> @.role,
             content |-> UpdatedContent(@.content, newContent, delta), steps |-> None]]

\* as TextContentUpdater, with the new assistant message put in front
TextContentUpdaterUnshifting(T, newContent, delta, t) ==
    IF ~LastIsAssistant(T)
    THEN <<[id |-> AssistantId(t), role |-> "assistant",
            content |-> Some(NewMessageContent(newContent, delta)),
            steps |-> None]>> \o T
    ELSE [T EXCEPT ![Len(T)] =
            [@ EXCEPT !.content = UpdatedContent(@, newContent, delta)]]

TextContentUpdater(T, newContent, delta, t) ==
    IF ~LastIsAssistant(T)
    THEN Append(T, [id |-> AssistantId(t), role |-> "assistant",
                    content |-> Some(NewMessageContent(newContent, delta)),
                    steps |-> None])
    ELSE [T EXCEPT ![Len(T)] =
            [@ EXCEPT !.content = UpdatedContent(@, newContent, delta)]]

NewStep(stepName, stepText) ==
    [name |-> stepName, text |-> stepText, status |-> "running"]

\* as AddStep, with the new step put in front
AddStepInFront(steps, newStep) ==
    IF steps # None THEN Some(<<newStep>> \o steps[1]) ELSE Some(<<newStep>>)

\* lastMsg.steps ? [...lastMsg.steps, newStep] : [newStep]
AddStep(steps, newStep) ==
    IF steps # None THEN Some(Append(steps[1], newStep)) ELSE Some(<<newStep>>)

\* as StepStartedUpdater, with a new message pushed for every step
StepStartedUpdaterAlwaysPushing(T, wire, t) ==
    Append(T, [id |-> AssistantId(t), role |-> "assistant", content |-> Some(<<>>),
               steps |-> Some(<<NewStep(DecodeName(wire), DecodeText(wire))>>)])

StepStartedUpdater(T, wire, t) ==
    LET newStep == NewStep(DecodeName(wire), DecodeText(wire))
    IN  IF LastIsAssistant(T)
        THEN [T EXCEPT ![Len(T)] = [@ EXCEPT !.steps = AddStep(@, newStep)]]
        ELSE Append(T, [id |-> AssistantId(t), role |-> "assistant",
                        content |-> Some(<<>>), steps |-> Some(<<newStep>>)])

\* as UpdatedSteps, without the test of the name
UpdatedStepsAnyName(stepList, stepName) ==
    [i \in DOMAIN stepList |->
        IF stepList[i].status = "running"
        THEN [stepList[i] EXCEPT !.status = "completed"]
        ELSE stepList[i]]

\* as UpdatedSteps, with the status of the named steps flipped
UpdatedStepsFlipping(stepList, stepName) ==
    [i \in DOMAIN stepList |->
        IF stepList[i].name = stepName
        THEN [stepList[i] EXCEPT !.status = IF @ = "running" THEN "completed" ELSE "running"]
        ELSE stepList[i]]

\* lastMsg.steps.map(...): every running step of that name becomes completed
UpdatedSteps(stepList, stepName) ==
    [i \in DOMAIN stepList |->
        IF stepList[i].name = stepName /\ stepList[i].status = "running"
        THEN [stepList[i] EXCEPT !.status = "completed"]
        ELSE stepList[i]]

\* as StepFinishedUpdater, with the whole wire field compared with the names
StepFinishedUpdaterWholeField(T, wire) ==
    IF LastIsAssistant(T) /\ T[Len(T)].steps # None
    THEN [T EXCEPT ![Len(T)] = [@ EXCEPT !.steps = Some(UpdatedSteps(@[1], wire))]]
    ELSE T

StepFinishedUpdater(T, wire) ==
    IF LastIsAssistant(T) /\ T[Len(T)].steps # None
    THEN [T EXCEPT ![Len(T)] =
            [@ EXCEPT !.steps = Some(UpdatedSteps(@[1], DecodeName(wire)))]]
    ELSE T

----------------------------------------------------------------------------
(* onMessagesChanged: the merge of the agent's messages with local steps. *)

\* assistantIndex when prev.forEach visits position i
AssistantIndex(T, i) == Cardinality({ j \in 1..(i - 1) : T[j].role = "assistant" })

\* as StepsById, with empty and placeholder ids stored too
StepsByIdAnyId(T, id) ==
    LET hits == { i \in 1..Len(T) : T[i].steps # None /\ T[i].id = id }
    IN  IF hits = {} THEN None
        ELSE T[CHOOSE i \in hits : \A j \in hits : j <= i].steps

\* stepsById.get(id): the last previous message with steps and that real id wins
StepsById(T, id) ==
    LET hits == { i \in 1..Len(T) : T[i].steps # None /\ IsRealId(T[i].id) /\ T[i].id = id }
    IN  IF hits = {} THEN None
        ELSE T[CHOOSE i \in hits : \A j \in hits : j <= i].steps

\* stepsByIndex.get(k)
StepsByIndex(T, k) ==
    LET hits == { i \in 1..Len(T) : T[i].steps # None /\ T[i].role = "assistant"
                                     /\ AssistantIndex(T, i) = k }
    IN  IF hits = {} THEN None ELSE T[CHOOSE i \in hits : TRUE].steps

\* the lookup falls back to the position only for an assistant message without an id match
UsesIndex(T, agentMsg) == StepsById(T, agentMsg.id) = None /\ agentMsg.role = "assistant"

\* currentAssistantIndex after agentMsg has been mapped
NextAssistantIndex(T, agentMsg, current) ==
    IF UsesIndex(T, agentMsg) THEN current + 1 ELSE current

RECURSIVE CurrentAssistantIndex(_, _, _)
\* currentAssistantIndex when the map visits agentMsgs[j]
CurrentAssistantIndex(T, agentMsgs, j) ==
    IF j <= 1 THEN 0
    ELSE NextAssistantIndex(T, agentMsgs[j - 1], CurrentAssistantIndex(T, agentMsgs, j - 1))

\* as ExistingSteps, with the running steps found marked completed
ExistingStepsCompleted(T, agentMsg, current) ==
    LET found == IF UsesIndex(T, agentMsg) THEN StepsByIndex(T, current)
                 ELSE StepsById(T, agentMsg.id)
    IN  IF found = None THEN None ELSE Some(UpdatedStepsAnyName(found[1], <<>>))

\* existingSteps of agentMsg
ExistingSteps(T, agentMsg, current) ==
    IF UsesIndex(T, agentMsg) THEN StepsByIndex(T, current) ELSE StepsById(T, agentMsg.id)

RECURSIVE MapAgentMessages(_, _, _, _)
\* agent.messages.map(...) from position i on, with currentAssistantIndex = current
MapAgentMessages(T, agentMsgs, i, current) ==
    IF i > Len(agentMsgs) THEN <<>>
    ELSE LET agentMsg == agentMsgs[i]
             existingSteps == ExistingSteps(T, agentMsg, current)
             out == IF existingSteps # None
                    THEN [agentMsg EXCEPT !.steps = existingSteps]
                    ELSE agentMsg
         IN  <<out>> \o MapAgentMessages(T, agentMsgs, i + 1,
                                         NextAssistantIndex(T, agentMsg, current))

\* as KeepsStreamingSteps, whether or not a run is running
KeepsStreamingStepsAlways(T, result, running) ==
    /\ Len(result) > 0
    /\ Len(T) > 0
    /\ result[Len(result)].role = "assistant"
    /\ T[Len(T)].role = "assistant"
    /\ T[Len(T)].steps # None
    /\ result[Len(result)].steps = None

\* the condition under which the last message keeps the previous last message's steps
KeepsStreamingSteps(T, result, running) ==
    /\ running
    /\ Len(result) > 0
    /\ Len(T) > 0
    /\ result[Len(result)].role = "assistant"
    /\ T[Len(T)].role = "assistant"
    /\ T[Len(T)].steps # None
    /\ result[Len(result)].steps = None

\* as MessagesChangedUpdater, with the snapshot suppressed while running
MessagesChangedUpdaterSuppressing(T, agentMsgs, running) ==
    IF running THEN T ELSE MapAgentMessages(T, agentMsgs, 1, 0)

MessagesChangedUpdater(T, agentMsgs, running) ==
    LET result == MapAgentMessages(T, agentMsgs, 1, 0)
    IN  IF KeepsStreamingSteps(T, result, running)
        THEN [result EXCEPT ![Len(result)] = [@ EXCEPT !.steps = T[Len(T)].steps]]
        ELSE result

----------------------------------------------------------------------------
(* What the transport and the caller can hand to the handlers. *)

\* textMessageBuffer: absent, or the text so far
Buffers == { None, Some(<<"H">>) }

\* event.delta: absent, or one more fragment
Deltas == { None, Some(<<"a">>) }

\* event.stepName as sent by the backend: name|||text
StepNames == { <<"P", "|", "|", "|", "d">> }

\* event.message of a RunError
ErrorMessages == { "", "boom" }

\* what runAgent() can throw: an Error with a message, or something else
Thrown == { Some("boom"), None }

\* content argument of sendMessage
UserContents == { <<"a">> }

Roles == { "user", "assistant" }

DistinctIds(T) == \A i, j \in 1..Len(T) : i # j => T[i].id # T[j].id

SeqsUpTo(S, n) == UNION { [1..k -> S] : k \in 0..n }

\* messages as the agent holds them: no steps field
AgentMessagesOver(ids, contents) ==
    [id : ids, role : Roles, content : contents, steps : {None}]

\* the lists agent.messages can be replaced by: distinct ids, no steps
AgentLists ==
    { L \in SeqsUpTo(AgentMessagesOver({ <<"srv", 1>>, <<"srv", 2>> }, { Some(<<"H">>) }),
                     MaxMsgs) : DistinctIds(L) }

----------------------------------------------------------------------------
(* History bookkeeping shared by the actions. *)

Event(op, buffer, delta, wire, text, accepted) ==
    [op |-> op, buffer |-> buffer, delta |-> delta, wire |-> wire,
     text |-> text, accepted |-> accepted]

\* the content a streak of delta-only events should have produced so far
NextDeltaLog(T, log, buffer, delta) ==
    IF buffer = None /\ delta # None
    THEN IF ~LastIsAssistant(T) THEN Some(delta[1])
         ELSE IF log # None THEN Some(log[1] \o delta[1])
         ELSE None
    ELSE None

ContentWithin(T) ==
    \A i \in 1..Len(T) : T[i].content # None => Len(T[i].content[1]) <= MaxContentLen

StepsWithin(T) ==
    \A i \in 1..Len(T) : T[i].steps # None => Len(T[i].steps[1]) <= MaxSteps

Within(T) == Len(T) <= MaxMsgs /\ ContentWithin(T) /\ StepsWithin(T)

\* the pairs <<a, b>> of distinct ids with a somewhere before b in T
Pairs(T) ==
    { <<T[q[1]].id, T[q[2]].id>> :
        q \in { r \in (1..Len(T)) \X (1..Len(T)) : r[1] < r[2] /\ T[r[1]].id # T[r[2]].id } }

Ids(T) == { T[i].id : i \in 1..Len(T) }

\* no pair of S is the reverse of a pair of R
Agree(R, S) == \A q \in S : <<q[2], q[1]>> \notin R

\* nothing seen yet
NoOrder == [before |-> {}, agent |-> {}, ids |-> {}, agreed |-> TRUE]

\* no handler has arrived yet
NoArrivals == [sequential |-> <<>>, stale |-> FALSE, count |-> 0, flushed |-> {}]

\* no ChatInput handler has run yet
NoInput == [op |-> "start", key |-> "", shiftKey |-> FALSE, disabled |-> FALSE,
            running |-> FALSE, before |-> <<>>, sent |-> None]

----------------------------------------------------------------------------
(* The state after the hook has mounted. *)

Init ==
    /\ messages = <<>>
    /\ isRunning = FALSE
    /\ isRunningRef = FALSE
    /\ streamingText = None
    /\ error = None
    /\ agentMessages = <<>>
    /\ now = 1
    /\ runs = 0
    /\ lastEvent = Event("start", None, None, None, None, TRUE)
    /\ prev = <<>>
    /\ deltaLog = None
    /\ runLog = <<>>
    /\ orderLog = NoOrder
    /\ encoded = None
    /\ input = <<>>
    /\ inputLog = NoInput
    /\ pending = <<>>
    /\ arrivals = NoArrivals

----------------------------------------------------------------------------
(* The subscriber's handlers. *)

\* as onRunStartedEvent, without setError(null)
onRunStartedEventKeepingError ==
    /\ isRunning' = TRUE
    /\ isRunningRef' = TRUE
    /\ streamingText' = None
    /\ lastEvent' = Event("RunStarted", None, None, None, None, TRUE)
    /\ deltaLog' = None
    /\ UNCHANGED <<messages, error, agentMessages, now, runs, prev>>

onRunStartedEvent ==
    /\ isRunning' = TRUE
    /\ isRunningRef' = TRUE
    /\ error' = None
    /\ streamingText' = None
    /\ lastEvent' = Event("RunStarted", None, None, None, None, TRUE)
    /\ deltaLog' = None
    /\ UNCHANGED <<messages, agentMessages, now, runs, prev>>

\* as onRunFinishedEvent, with the streaming buffer left as it is
onRunFinishedEventKeepingBuffer ==
    /\ isRunning' = FALSE
    /\ isRunningRef' = FALSE
    /\ lastEvent' = Event("RunFinished", None, None, None, None, TRUE)
    /\ deltaLog' = None
    /\ UNCHANGED <<messages, streamingText, error, agentMessages, now, runs, prev>>

onRunFinishedEvent ==
    /\ isRunning' = FALSE
    /\ isRunningRef' = FALSE
    /\ streamingText' = None
    /\ lastEvent' = Event("RunFinished", None, None, None, None, TRUE)
    /\ deltaLog' = None
    /\ UNCHANGED <<messages, error, agentMessages, now, runs, prev>>

\* as ErrorText, with the fallback text shown for every error
ErrorTextAlwaysFallback(message) == "An error occurred"

\* event.message || 'An error occurred'
ErrorText(message) == IF message # "" THEN message ELSE "An error occurred"

\* as onRunErrorEvent, with the transcript cleared
onRunErrorEventClearingTranscript(message) ==
    /\ error' = Some(ErrorText(message))
    /\ isRunning' = FALSE
    /\ isRunningRef' = FALSE
    /\ streamingText' = None
    /\ messages' = <<>>
    /\ lastEvent' = Event("RunError", None, None, None, Some(message), TRUE)
    /\ deltaLog' = None
    /\ UNCHANGED <<agentMessages, now, runs, prev>>

onRunErrorEvent(message) ==
    /\ error' = Some(ErrorText(message))
    /\ isRunning' = FALSE
    /\ isRunningRef' = FALSE
    /\ streamingText' = None
    /\ lastEvent' = Event("RunError", None, None, None, Some(message), TRUE)
    /\ deltaLog' = None
    /\ UNCHANGED <<messages, agentMessages, now, runs, prev>>

onTextMessageContentEvent(textMessageBuffer, delta) ==
    /\ Within(TextContentUpdater(messages, textMessageBuffer, delta, now))
    /\ streamingText' = textMessageBuffer
    /\ messages' = TextContentUpdater(messages, textMessageBuffer, delta, now)
    /\ lastEvent' = Event("TextMessageContent", textMessageBuffer, delta, None, None, TRUE)
    /\ deltaLog' = NextDeltaLog(messages, deltaLog, textMessageBuffer, delta)
    /\ UNCHANGED <<isRunning, isRunningRef, error, agentMessages, now, runs, prev>>

onStepStartedEvent(stepName) ==
    /\ Within(StepStartedUpdater(messages, stepName, now))
    /\ messages' = StepStartedUpdater(messages, stepName, now)
    /\ lastEvent' = Event("StepStarted", None, None, Some(stepName), None, TRUE)
    /\ deltaLog' = None
    /\ UNCHANGED <<isRunning, isRunningRef, streamingText, error, agentMessages, now,
                   runs, prev>>

onStepFinishedEvent(stepName) ==
    /\ messages' = StepFinishedUpdater(messages, stepName)
    /\ lastEvent' = Event("StepFinished", None, None, Some(stepName), None, TRUE)
    /\ deltaLog' = None
    /\ UNCHANGED <<isRunning, isRunningRef, streamingText, error, agentMessages, now,
                   runs, prev>>

\* the agent has changed its message list and notifies the subscriber
onMessagesChanged(agentMsgs) ==
    /\ agentMessages' = agentMsgs
    /\ messages' = MessagesChangedUpdater(messages, agentMsgs, isRunningRef)
    /\ lastEvent' = Event("MessagesChanged", None, None, None, None, TRUE)
    /\ deltaLog' = None
    /\ UNCHANGED <<isRunning, isRunningRef, streamingText, error, now, runs, prev>>

----------------------------------------------------------------------------
(* sendMessage and the settling of the runAgent() it awaits. *)

UserMessage(content, t) ==
    [id |-> MsgId(t), role |-> "user", content |-> Some(content), steps |-> None]

\* as sendMessage, without the early return while running
sendMessageUnguarded(content) ==
    /\ lastEvent' = Event("sendMessage", None, None, None, Some(content), TRUE)
    /\ deltaLog' = None
    /\ Len(agentMessages) < MaxMsgs
    /\ runs < MaxRuns
    /\ error' = None
    /\ agentMessages' = Append(agentMessages, UserMessage(content, now))
    /\ messages' = Append(agentMessages, UserMessage(content, now))
    /\ runs' = runs + 1
    /\ UNCHANGED <<isRunning, isRunningRef, streamingText, now, prev>>

\* as sendMessage, with the user message shown in front of the transcript
sendMessagePrepending(content) ==
    /\ lastEvent' = Event("sendMessage", None, None, None, Some(content), ~isRunning)
    /\ deltaLog' = None
    /\ IF isRunning
       THEN UNCHANGED <<messages, isRunning, isRunningRef, streamingText, error,
                        agentMessages, now, runs, prev>>
       ELSE /\ Len(agentMessages) < MaxMsgs
            /\ runs < MaxRuns
            /\ error' = None
            /\ agentMessages' = Append(agentMessages, UserMessage(content, now))
            /\ messages' = <<UserMessage(content, now)>> \o agentMessages
            /\ runs' = runs + 1
            /\ UNCHANGED <<isRunning, isRunningRef, streamingText, now, prev>>

sendMessage(content) ==
    /\ lastEvent' = Event("sendMessage", None, None, None, Some(content), ~isRunning)
    /\ deltaLog' = None
    /\ IF isRunning
       THEN UNCHANGED <<messages, isRunning, isRunningRef, streamingText, error,
                        agentMessages, now, runs, prev>>
       ELSE /\ Len(agentMessages) < MaxMsgs
            /\ runs < MaxRuns
            /\ error' = None
            /\ agentMessages' = Append(agentMessages, UserMessage(content, now))
            /\ messages' = Append(agentMessages, UserMessage(content, now))
            /\ runs' = runs + 1
            /\ UNCHANGED <<isRunning, isRunningRef, streamingText, now, prev>>

\* err instanceof Error ? err.message : 'Unknown error'
ErrorMessage(err) == IF err # None THEN err[1] ELSE "Unknown error"

\* as runAgentRejected, without setIsRunning(false)
runAgentRejectedKeepingFlag(err) ==
    /\ runs > 0
    /\ runs' = runs - 1
    /\ error' = Some(ErrorMessage(err))
    /\ lastEvent' = Event("runAgentRejected", None, None, None, err, TRUE)
    /\ deltaLog' = None
    /\ UNCHANGED <<messages, isRunning, isRunningRef, streamingText, agentMessages, now,
                   prev>>

\* the catch block: runAgent() rejected
runAgentRejected(err) ==
    /\ runs > 0
    /\ runs' = runs - 1
    /\ error' = Some(ErrorMessage(err))
    /\ isRunning' = FALSE
    /\ lastEvent' = Event("runAgentRejected", None, None, None, err, TRUE)
    /\ deltaLog' = None
    /\ UNCHANGED <<messages, isRunningRef, streamingText, agentMessages, now, prev>>

\* runAgent() resolved: sendMessage returns
runAgentResolved ==
    /\ runs > 0
    /\ runs' = runs - 1
    /\ lastEvent' = Event("runAgentResolved", None, None, None, None, TRUE)
    /\ deltaLog' = None
    /\ UNCHANGED <<messages, isRunning, isRunningRef, streamingText, error,
                   agentMessages, now, prev>>

\* the clock advances between two handlers
Tick ==
    /\ now < MaxClock
    /\ now' = now + 1
    /\ UNCHANGED <<messages, isRunning, isRunningRef, streamingText, error,
                   agentMessages, runs, lastEvent, prev, deltaLog>>

\* the histories of SpecRun, SpecOrder and SpecCodec are not kept, the chat
\* input is left alone, and React runs each updater before the next handler
Quiet == UNCHANGED <<runLog, orderLog, encoded, input, inputLog, pending, arrivals>>

Next ==
    \/ Quiet /\ onRunStartedEvent
    \/ Quiet /\ onRunFinishedEvent
    \/ Quiet /\ \E message \in ErrorMessages : onRunErrorEvent(message)
    \/ Quiet /\ \E b \in Buffers, d \in Deltas : onTextMessageContentEvent(b, d)
    \/ Quiet /\ \E w \in StepNames : onStepStartedEvent(w)
    \/ Quiet /\ \E w \in StepNames : onStepFinishedEvent(w)
    \/ Quiet /\ \E L \in AgentLists : onMessagesChanged(L)
    \/ Quiet /\ \E c \in UserContents : sendMessage(c)
    \/ Quiet /\ \E e \in Thrown : runAgentRejected(e)
    \/ Quiet /\ runAgentResolved
    \/ Quiet /\ Tick

\* the hook from its mount on, under every order of events and calls
Spec == Init /\ [][Next]_vars

----------------------------------------------------------------------------
(* One handler applied to a transcript drawn from a bounded set: the        *)
(* streaming handlers over every shape of the last message.                *)

AnyBuffers == { None, Some(<<>>), Some(<<"H">>) }

AnyDeltas == { None, Some(<<>>), Some(<<"a">>) }

AnyStepNames == { <<"P">>, <<"P", "|", "|", "|", "d">>, <<"Q">> }

StepData == [name : { <<"P">>, <<"Q">> }, text : { <<>> }, status : { "running", "completed" }]

\* a steps field: absent, or a non-empty list
StepLists == { None } \cup { Some(l) : l \in SeqsUpTo(StepData, MaxSteps) \ { <<>> } }

\* the message the handlers look at: every role, content and step list
LastMessages ==
    [id : { EmptyId }, role : Roles, content : { None, Some(<<>>), Some(<<"H">>) },
     steps : StepLists]

\* the messages before it
EarlierMessages ==
    [id : { EmptyId }, role : Roles, content : { Some(<<"H">>) },
     steps : { None, Some(<<[name |-> <<"P">>, text |-> <<>>, status |-> "running"]>>) }]

\* the agent's ids, in order of position
Numbered(T) == [i \in 1..Len(T) |-> [T[i] EXCEPT !.id = <<"srv", i>>]]

ReducerTranscripts ==
    { <<>> } \cup
    { Numbered(e \o <<m>>) : e \in SeqsUpTo(EarlierMessages, MaxMsgs - 1), m \in LastMessages }

InitReducer ==
    /\ messages \in ReducerTranscripts
    /\ isRunning \in BOOLEAN
    /\ isRunningRef = isRunning
    /\ streamingText = None
    /\ error = None
    /\ agentMessages = <<>>
    /\ now = 1
    /\ runs = 0
    /\ lastEvent = Event("start", None, None, None, None, TRUE)
    /\ prev = messages
    /\ deltaLog = None
    /\ runLog = <<>>
    /\ orderLog = NoOrder
    /\ encoded = None
    /\ input = <<>>
    /\ inputLog = NoInput
    /\ pending = <<>>
    /\ arrivals = NoArrivals

\* no handler has run yet
AtStart == lastEvent.op = "start"

NextReducer ==
    \/ AtStart /\ Quiet /\ \E b \in AnyBuffers, d \in AnyDeltas : onTextMessageContentEvent(b, d)
    \/ AtStart /\ Quiet /\ \E w \in AnyStepNames : onStepStartedEvent(w)
    \/ AtStart /\ Quiet /\ \E w \in AnyStepNames : onStepFinishedEvent(w)

\* one streaming event on any transcript
SpecReducer == InitReducer /\ [][NextReducer]_vars

----------------------------------------------------------------------------
(* A run of delta-only text events from a transcript with no open          *)
(* assistant message.                                                      *)

OnlyDeltas == { Some(<<>>), Some(<<"a">>), Some(<<"b">>) }

InitDeltas ==
    /\ InitReducer
    /\ ~LastIsAssistant(messages)

NextDeltas == Quiet /\ \E d \in OnlyDeltas : onTextMessageContentEvent(None, d)

SpecDeltas == InitDeltas /\ [][NextDeltas]_vars

----------------------------------------------------------------------------
(* One handler applied to a transcript whose messages differ in id, role   *)
(* and steps: the merge over every authoritative list, next to the other   *)
(* handlers that write the transcript.                                     *)

StepsA == Some(<<[name |-> <<"P">>, text |-> <<"d">>, status |-> "completed"]>>)

StepsB == Some(<<[name |-> <<"Q">>, text |-> <<>>, status |-> "running"]>>)

\* two steps, the first one still running
StepsAB == Some(<<[name |-> <<"Q">>, text |-> <<>>, status |-> "running"],
                 [name |-> <<"P">>, text |-> <<"d">>, status |-> "completed"]>>)

LocalMessages ==
    [id : { <<"srv", 1>>, <<"srv", 2>>, <<"placeholder", 1>>, EmptyId }, role : Roles,
     content : { Some(<<"a">>) }, steps : { None, StepsA, StepsB, StepsAB }]

Transcripts == { T \in SeqsUpTo(LocalMessages, MaxMsgs) : DistinctIds(T) }

AnyAgentLists ==
    { L \in SeqsUpTo(AgentMessagesOver({ <<"srv", 1>>, <<"srv", 2>>, <<"srv", 3>>,
                                         <<"placeholder", 1>>, EmptyId },
                                       { Some(<<"H">>) }),
                     MaxMsgs) : DistinctIds(L) }

\* the agent's copy of a transcript: the same messages without steps
WithoutSteps(T) == [i \in 1..Len(T) |-> [T[i] EXCEPT !.steps = None]]

InitStep ==
    /\ messages \in Transcripts
    /\ isRunningRef \in BOOLEAN
    /\ isRunning = isRunningRef
    /\ streamingText = None
    /\ error = None
    /\ agentMessages = WithoutSteps(messages)
    /\ now = 1
    /\ runs = 0
    /\ lastEvent = Event("start", None, None, None, None, TRUE)
    /\ prev = messages
    /\ deltaLog = None
    /\ runLog = <<>>
    /\ orderLog = NoOrder
    /\ encoded = None
    /\ input = <<>>
    /\ inputLog = NoInput
    /\ pending = <<>>
    /\ arrivals = NoArrivals

NextStep ==
    \/ AtStart /\ Quiet /\ \E L \in AnyAgentLists : onMessagesChanged(L)
    \/ AtStart /\ Quiet /\ \E b \in Buffers, d \in Deltas : onTextMessageContentEvent(b, d)
    \/ AtStart /\ Quiet /\ \E w \in StepNames : onStepStartedEvent(w)
    \/ AtStart /\ Quiet /\ \E w \in { <<"P">>, <<"Q">> } : onStepFinishedEvent(w)
    \/ AtStart /\ Quiet /\ \E c \in UserContents : sendMessage(c)

SpecStep == InitStep /\ [][NextStep]_vars

----------------------------------------------------------------------------
(* One run as the transport delivers it: RunStarted, step events, text     *)
(* events, RunFinished, from a transcript with no open assistant message   *)
(* and with no onMessagesChanged in between.                               *)

MaxRunEvents == 4   \* most step and text events of one run

RunStepNames == { <<"P", "|", "|", "|", "d">>, <<"Q">> }

RunFinishNames == { <<"P">>, <<"Q">> }

\* what the user sees before a run: nothing, or earlier messages closed by a user message
RunTranscripts ==
    { T \in ReducerTranscripts :
        /\ ~LastIsAssistant(T)
        /\ Len(T) > 0 => T[Len(T)].steps = None /\ T[Len(T)].content = Some(<<"H">>) }

InitRun ==
    /\ messages \in RunTranscripts
    /\ isRunning = FALSE
    /\ isRunningRef = FALSE
    /\ streamingText = None
    /\ error = None
    /\ agentMessages = <<>>
    /\ now = 1
    /\ runs = 0
    /\ lastEvent = Event("start", None, None, None, None, TRUE)
    /\ prev = messages
    /\ deltaLog = None
    /\ runLog = <<>>
    /\ orderLog = NoOrder
    /\ encoded = None
    /\ input = <<>>
    /\ inputLog = NoInput
    /\ pending = <<>>
    /\ arrivals = NoArrivals

\* the run has started and has not delivered a text event yet
InStepPhase == lastEvent.op \in { "RunStarted", "StepStarted", "StepFinished" }

\* the run has started and has not finished
InRun == InStepPhase \/ lastEvent.op = "TextMessageContent"

NextRun ==
    \/ /\ lastEvent.op = "start"
       /\ onRunStartedEvent
       /\ runLog' = <<>>
       /\ UNCHANGED <<orderLog, encoded, input, inputLog, pending, arrivals>>
    \/ /\ InStepPhase
       /\ Len(runLog) < MaxRunEvents
       /\ \E w \in RunStepNames : onStepStartedEvent(w)
       /\ runLog' = Append(runLog, lastEvent')
       /\ UNCHANGED <<orderLog, encoded, input, inputLog, pending, arrivals>>
    \/ /\ InStepPhase
       /\ Len(runLog) < MaxRunEvents
       /\ \E w \in RunFinishNames : onStepFinishedEvent(w)
       /\ runLog' = Append(runLog, lastEvent')
       /\ UNCHANGED <<orderLog, encoded, input, inputLog, pending, arrivals>>
    \/ /\ InRun
       /\ Len(runLog) < MaxRunEvents
       /\ \E b \in Buffers, d \in AnyDeltas : onTextMessageContentEvent(b, d)
       /\ runLog' = Append(runLog, lastEvent')
       /\ UNCHANGED <<orderLog, encoded, input, inputLog, pending, arrivals>>
    \/ /\ InRun
       /\ onRunFinishedEvent
       /\ Quiet
    \/ /\ InRun
       /\ Tick
       /\ Quiet

SpecRun == InitRun /\ [][NextRun]_vars

----------------------------------------------------------------------------
(* The hook from its mount on, with the orders of ids recorded: those of   *)
(* the transcript, those of the agent's list, and whether every list the   *)
(* agent came up with agreed with its earlier lists and every id made from *)
(* the clock was new.  Nothing more is explored once that has failed.      *)

\* the agent's list after a change: its own ids and those it already holds
OrderLists(current) ==
    { L \in SeqsUpTo(AgentMessagesOver({ <<"srv", 1>> } \cup Ids(current),
                                       { Some(<<"H">>) }),
                     MaxMsgs) : DistinctIds(L) }

\* the history after this step, given whether the step met the assumptions
Seen(met) ==
    [before |-> orderLog.before \cup Pairs(messages'),
     agent |-> orderLog.agent \cup Pairs(agentMessages'),
     ids |-> orderLog.ids \cup Ids(messages') \cup Ids(agentMessages'),
     agreed |-> orderLog.agreed /\ met]

\* `assistant-${Date.now()}` would be an id not seen before
FreshAssistantId == AssistantId(now) \notin orderLog.ids

\* `msg-${Date.now()}` would be an id not seen before
FreshMsgId == MsgId(now) \notin orderLog.ids

\* the assumptions have held so far; the history of SpecRun is not kept
Agreed == orderLog.agreed /\ UNCHANGED <<runLog, encoded, input, inputLog, pending, arrivals>>

NextOrder ==
    \/ /\ Agreed
       /\ \E L \in OrderLists(agentMessages) :
             /\ onMessagesChanged(L)
             /\ orderLog' = Seen(Agree(orderLog.agent, Pairs(L)))
    \/ /\ Agreed
       /\ onTextMessageContentEvent(Some(<<"H">>), None)
       /\ orderLog' = Seen(LastIsAssistant(messages) \/ FreshAssistantId)
    \/ /\ Agreed
       /\ \E w \in StepNames : onStepStartedEvent(w)
       /\ orderLog' = Seen(LastIsAssistant(messages) \/ FreshAssistantId)
    \/ /\ Agreed
       /\ \E c \in UserContents : sendMessage(c)
       /\ orderLog' = Seen(isRunning \/ FreshMsgId)
    \/ /\ Agreed
       /\ onRunStartedEvent
       /\ UNCHANGED orderLog
    \/ /\ Agreed
       /\ onRunFinishedEvent
       /\ UNCHANGED orderLog
    \/ /\ Agreed
       /\ Tick
       /\ UNCHANGED orderLog

SpecOrder == Init /\ [][NextOrder]_vars

----------------------------------------------------------------------------
(* The step codec: step events whose wire field is any short string over   *)
(* a letter and the separator's character, or the encoding of a name and   *)
(* a text that do not contain the separator; one step is started and then  *)
(* finished.                                                               *)

MaxFieldLen == 2   \* longest name and longest text that are encoded
MaxWireLen == 5    \* longest wire field that is not an encoding

Alphabet == { "a", "|" }

Wires == SeqsUpTo(Alphabet, MaxWireLen)

\* names and texts without the separator
Fields == { f \in SeqsUpTo(Alphabet, MaxFieldLen) : IndexOfSeparator(f) = 0 }

\* one StepStarted on the empty transcript, then StepFinished events
NextCodec ==
    \/ /\ UNCHANGED <<runLog, orderLog, input, inputLog, pending, arrivals>>
       /\ messages = <<>>
       /\ \E name \in Fields, text \in Fields :
             /\ onStepStartedEvent(Encode(name, text))
             /\ encoded' = Some(<<name, text>>)
    \/ /\ UNCHANGED <<runLog, orderLog, input, inputLog, pending, arrivals>>
       /\ messages = <<>>
       /\ \E w \in Wires : onStepStartedEvent(w)
       /\ encoded' = None
    \/ /\ UNCHANGED <<runLog, orderLog, input, inputLog, pending, arrivals>>
       /\ messages # <<>>
       /\ \E w \in Wires : onStepFinishedEvent(w)
       /\ encoded' = None

SpecCodec == Init /\ [][NextCodec]_vars

----------------------------------------------------------------------------
(* The chat input (ChatInput, rendered by App with onSend = sendMessage    *)
(* and disabled = isRunning): the text is edited, a key is pressed or the  *)
(* button is clicked in any state, runs start and finish.  The handlers    *)
(* are called whether or not the browser would deliver the event to a      *)
(* disabled control.                                                       *)

MaxInputLen == 3   \* longest text in the input

InputChars == { "a", " " }

Whitespace == { " ", "\n" }

Inputs == SeqsUpTo(InputChars, MaxInputLen)

Keys == { "Enter", "a" }

RECURSIVE TrimStart(_)
TrimStart(s) ==
    IF s # <<>> /\ Head(s) \in Whitespace THEN TrimStart(Tail(s)) ELSE s

RECURSIVE TrimEnd(_)
TrimEnd(s) ==
    IF s # <<>> /\ s[Len(s)] \in Whitespace
    THEN TrimEnd(SubSeq(s, 1, Len(s) - 1))
    ELSE s

\* as Trim, with the whitespace at the end kept
TrimKeepingEnd(s) == TrimStart(s)

\* String.prototype.trim()
Trim(s) == TrimEnd(TrimStart(s))

\* <ChatInput disabled={isRunning} />
disabled == isRunning

\* the state of the hook, which the input's own handlers leave alone
hook == <<messages, isRunning, isRunningRef, streamingText, error,
          agentMessages, now, runs, lastEvent, prev, deltaLog>>

InputEvent(op, key, shiftKey, sent) ==
    [op |-> op, key |-> key, shiftKey |-> shiftKey, disabled |-> disabled,
     running |-> isRunning, before |-> input, sent |-> sent]

\* onChange={(e) => setInput(e.target.value)}
onChange(value) ==
    /\ input' = value
    /\ inputLog' = InputEvent("onChange", "", FALSE, None)
    /\ UNCHANGED hook

handleSend(op, key, shiftKey) ==
    IF Trim(input) # <<>> /\ ~disabled
    THEN /\ sendMessage(Trim(input))
         /\ input' = <<>>
         /\ inputLog' = InputEvent(op, key, shiftKey, Some(Trim(input)))
    ELSE /\ inputLog' = InputEvent(op, key, shiftKey, None)
         /\ UNCHANGED <<hook, input>>

handleKeyPress(key, shiftKey) ==
    IF key = "Enter" /\ ~shiftKey
    THEN handleSend("handleKeyPress", key, shiftKey)
    ELSE /\ inputLog' = InputEvent("handleKeyPress", key, shiftKey, None)
         /\ UNCHANGED <<hook, input>>

\* <Button onClick={handleSend} />
onClick == handleSend("onClick", "", FALSE)

NextInput ==
    \/ /\ UNCHANGED <<runLog, orderLog, encoded, pending, arrivals>>
       /\ \E value \in Inputs : onChange(value)
    \/ /\ UNCHANGED <<runLog, orderLog, encoded, pending, arrivals>>
       /\ \E key \in Keys, shiftKey \in BOOLEAN : handleKeyPress(key, shiftKey)
    \/ /\ UNCHANGED <<runLog, orderLog, encoded, pending, arrivals>>
       /\ onClick
    \/ Quiet /\ onRunStartedEvent
    \/ Quiet /\ onRunFinishedEvent

SpecInput == Init /\ [][NextInput]_vars

----------------------------------------------------------------------------
(* The handlers as React runs them: setMessages(updater) puts the updater  *)
(* in a queue, and the next render applies the queued updaters in order to *)
(* the transcript.  Several handlers can arrive before a render.  The      *)
(* updater of onMessagesChanged reads agent.messages and isRunningRef when *)
(* it runs; React may also run an updater at once when the queue is empty  *)
(* and keep its result for the render.                                     *)

MaxPending == 2    \* most updaters queued before a render
MaxArrivals == 3   \* most handlers of one behaviour

Update(op, buffer, delta, wire, eager) ==
    [op |-> op, buffer |-> buffer, delta |-> delta, wire |-> wire, eager |-> eager]

\* one queued updater applied to T at a render
ApplyUpdate(T, u, list, running, t) ==
    CASE u.op = "TextMessageContent" -> TextContentUpdater(T, u.buffer, u.delta, t)
      [] u.op = "StepStarted" -> StepStartedUpdater(T, u.wire[1], t)
      [] u.op = "StepFinished" -> StepFinishedUpdater(T, u.wire[1])
      [] u.op = "MessagesChanged" ->
            IF u.eager # None THEN u.eager[1]
            ELSE MessagesChangedUpdater(T, list, running)

RECURSIVE ProcessQueue(_, _, _, _, _)
\* the queued updaters applied in the order of their setMessages calls
ProcessQueue(T, queue, list, running, t) ==
    IF queue = <<>> THEN T
    ELSE ProcessQueue(ApplyUpdate(T, Head(queue), list, running, t), Tail(queue),
                      list, running, t)

\* a queued merge that will read agent.messages at the render
LazyMerges(queue) ==
    { k \in DOMAIN queue : queue[k].op = "MessagesChanged" /\ queue[k].eager = None }

\* setMessages(updater), and the handler applied at once to the history
setMessages(u, applied, staleNow) ==
    /\ Len(pending) < MaxPending
    /\ arrivals.count < MaxArrivals
    /\ pending' = Append(pending, u)
    /\ arrivals' = [arrivals EXCEPT !.sequential = applied,
                                    !.stale = @ \/ staleNow,
                                    !.count = @ + 1]
    /\ lastEvent' = Event(u.op, u.buffer, u.delta, u.wire, None, TRUE)
    /\ deltaLog' = None
    /\ UNCHANGED <<messages, isRunning, isRunningRef, error, now, runs, prev>>

dispatchTextMessageContent(textMessageBuffer, delta) ==
    /\ streamingText' = textMessageBuffer
    /\ setMessages(Update("TextMessageContent", textMessageBuffer, delta, None, None),
                   TextContentUpdater(arrivals.sequential, textMessageBuffer, delta, now),
                   FALSE)
    /\ UNCHANGED agentMessages

dispatchStepStarted(stepName) ==
    /\ setMessages(Update("StepStarted", None, None, Some(stepName), None),
                   StepStartedUpdater(arrivals.sequential, stepName, now), FALSE)
    /\ UNCHANGED <<streamingText, agentMessages>>

dispatchStepFinished(stepName) ==
    /\ setMessages(Update("StepFinished", None, None, Some(stepName), None),
                   StepFinishedUpdater(arrivals.sequential, stepName), FALSE)
    /\ UNCHANGED <<streamingText, agentMessages>>

\* the agent has replaced its list by agentMsgs and notifies the subscriber
dispatchMessagesChanged(agentMsgs, eagerly) ==
    /\ eagerly => pending = <<>>
    /\ agentMessages' = agentMsgs
    /\ setMessages(Update("MessagesChanged", None, None, None,
                          IF eagerly
                          THEN Some(MessagesChangedUpdater(messages, agentMsgs, isRunningRef))
                          ELSE None),
                   MessagesChangedUpdater(arrivals.sequential, agentMsgs, isRunningRef),
                   LazyMerges(pending) # {} /\ agentMsgs # agentMessages)
    /\ UNCHANGED streamingText

\* as render, with every queued updater but the last one dropped
renderLastOnly ==
    /\ pending # <<>>
    /\ messages' = ApplyUpdate(messages, pending[Len(pending)], agentMessages,
                               isRunningRef, now)
    /\ pending' = <<>>
    /\ arrivals' = [arrivals EXCEPT !.flushed = { pending[k].op : k \in DOMAIN pending }]
    /\ lastEvent' = Event("render", None, None, None, None, TRUE)
    /\ deltaLog' = None
    /\ UNCHANGED <<isRunning, isRunningRef, streamingText, error, agentMessages, now,
                   runs, prev>>

\* React renders: the queue is processed
render ==
    /\ pending # <<>>
    /\ messages' = ProcessQueue(messages, pending, agentMessages, isRunningRef, now)
    /\ pending' = <<>>
    /\ arrivals' = [arrivals EXCEPT !.flushed = { pending[k].op : k \in DOMAIN pending }]
    /\ lastEvent' = Event("render", None, None, None, None, TRUE)
    /\ deltaLog' = None
    /\ UNCHANGED <<isRunning, isRunningRef, streamingText, error, agentMessages, now,
                   runs, prev>>

QueueUser == [id |-> <<"srv", 1>>, role |-> "user", content |-> Some(<<"a">>), steps |-> None]

QueueAssistant ==
    [id |-> <<"srv", 2>>, role |-> "assistant", content |-> Some(<<"H">>), steps |-> None]

\* agent.messages during a run: the user message, then the answer as well
QueueLists == { <<QueueUser>>, <<QueueUser, QueueAssistant>> }

\* the transcript before the batch: empty, or the user message and a local
\* assistant message with a running step
QueueTranscripts ==
    { <<>>,
      <<QueueUser>>,
      <<QueueUser, [id |-> AssistantId(1), role |-> "assistant", content |-> Some(<<>>),
                    steps |-> StepsB]>> }

InitQueue ==
    /\ messages \in QueueTranscripts
    /\ isRunningRef \in BOOLEAN
    /\ isRunning = isRunningRef
    /\ streamingText = None
    /\ error = None
    /\ agentMessages = IF messages = <<>> THEN <<>> ELSE <<QueueUser>>
    /\ now = 1
    /\ runs = 0
    /\ lastEvent = Event("start", None, None, None, None, TRUE)
    /\ prev = messages
    /\ deltaLog = None
    /\ runLog = <<>>
    /\ orderLog = NoOrder
    /\ encoded = None
    /\ input = <<>>
    /\ inputLog = NoInput
    /\ pending = <<>>
    /\ arrivals = [NoArrivals EXCEPT !.sequential = messages]

\* the histories of the other specifications and the chat input
Still == UNCHANGED <<runLog, orderLog, encoded, input, inputLog>>

NextQueue ==
    \/ Still /\ \E b \in Buffers, d \in Deltas : dispatchTextMessageContent(b, d)
    \/ Still /\ \E w \in StepNames : dispatchStepStarted(w)
    \/ Still /\ \E w \in RunFinishNames : dispatchStepFinished(w)
    \/ Still /\ \E L \in QueueLists, eagerly \in BOOLEAN : dispatchMessagesChanged(L, eagerly)
    \/ Still /\ render

SpecQueue == InitQueue /\ [][NextQueue]_vars

----------------------------------------------------------------------------
(* Two notifications in a row: any authoritative list is merged into any   *)
(* transcript, and then the agent notifies again with the same list.       *)

\* onMessagesChanged, counted in the history
notified(agentMsgs) ==
    /\ onMessagesChanged(agentMsgs)
    /\ arrivals' = [arrivals EXCEPT !.sequential = messages', !.count = @ + 1]
    /\ UNCHANGED pending

NextMerge ==
    \/ Still /\ AtStart /\ \E L \in AnyAgentLists : notified(L)
    \/ Still /\ lastEvent.op = "MessagesChanged" /\ arrivals.count = 1 /\ notified(agentMessages)

SpecMerge == InitStep /\ [][NextMerge]_vars

----------------------------------------------------------------------------
(* Vocabulary of the properties.  In SpecReducer, SpecDeltas and SpecStep  *)
(* prev is the transcript the handler started from.                        *)

Last(T) == T[Len(T)]

\* the handler op ran last
Acted(op) == lastEvent.op = op

\* this step is a call of handler op (every step but Tick is a handler call)
Handles(op) == now' = now /\ lastEvent'.op = op

\* the first n messages of U are those of T
SamePrefix(T, U, n) == Len(T) >= n /\ Len(U) >= n /\ \A i \in 1..n : U[i] = T[i]

\* the last message of T is an assistant message that has a step list
HasOpenSteps(T) == LastIsAssistant(T) /\ Last(T).steps # None

\* position of the first running step of that name, 0 when there is none
FirstRunning(stepList, stepName) ==
    LET hits == { k \in DOMAIN stepList :
                    stepList[k].name = stepName /\ stepList[k].status = "running" }
    IN  IF hits = {} THEN 0 ELSE CHOOSE k \in hits : \A h \in hits : k <= h

----------------------------------------------------------------------------
(* Counterparts of a previous message in an authoritative list L. *)

Carriers(T) == { i \in 1..Len(T) : T[i].role = "assistant" /\ T[i].steps # None }

\* the messages of L with the real id of T[i]
SameId(T, i, L) == { j \in 1..Len(L) : IsRealId(T[i].id) /\ L[j].id = T[i].id }

\* the assistant message of L at the index T[i] has among assistant messages
SameAssistantIndex(T, i, L) ==
    { j \in 1..Len(L) : L[j].role = "assistant"
                        /\ AssistantIndex(L, j) = AssistantIndex(T, i) }

Counterparts(T, i, L) ==
    IF SameId(T, i, L) # {} THEN SameId(T, i, L)
    ELSE IF T[i].role = "assistant" THEN SameAssistantIndex(T, i, L)
    ELSE {}

\* no other message with steps has a counterpart of T[i] as its own
Unshared(T, i, L) ==
    \A h \in 1..Len(T) :
       (h # i /\ T[h].steps # None) => Counterparts(T, h, L) \cap Counterparts(T, i, L) = {}

(* C1: after a merge every previous assistant message that carries steps   *)
(* has exactly those steps on its counterpart: the authoritative message   *)
(* with the same id or, when none has that id, the authoritative assistant *)
(* message at the same index among assistant messages.  Previous messages  *)
(* that would share one counterpart are left out: no merge can serve both. *)
C1_ResyncKeepsSteps ==
    Acted("MessagesChanged")
        => \A i \in Carriers(prev) :
              Unshared(prev, i, agentMessages)
                 => \A j \in Counterparts(prev, i, agentMessages) :
                       messages[j].steps = prev[i].steps

----------------------------------------------------------------------------
\* new is old, but for one step appended or running steps completed
StepsGrow(old, new) ==
    /\ Len(new) \in { Len(old), Len(old) + 1 }
    /\ \A k \in DOMAIN old :
          \/ new[k] = old[k]
          \/ old[k].status = "running" /\ new[k] = [old[k] EXCEPT !.status = "completed"]

(* C2: a message that stays in the transcript keeps its steps through      *)
(* every handler: its step list changes only by one step appended at the   *)
(* end or by a running step becoming completed.                            *)
C2_StepsNeverRemoved ==
    [][\A i \in 1..Len(messages), j \in 1..Len(messages') :
          (messages[i].steps # None /\ messages'[j].id = messages[i].id)
             => /\ messages'[j].steps # None
                /\ StepsGrow(messages[i].steps[1], messages'[j].steps[1])]_vars

----------------------------------------------------------------------------
----------------------------------------------------------------------------
\* new is old with only its first running step of that name completed
CompletesOnlyFirst(old, new, stepName) ==
    /\ Len(new) = Len(old)
    /\ \A k \in DOMAIN old :
          new[k] = IF k = FirstRunning(old, stepName)
                   THEN [old[k] EXCEPT !.status = "completed"]
                   ELSE old[k]

(* C4: StepFinished on a last assistant message with a step list completes *)
(* the first running step of the decoded name and leaves every other step, *)
(* later running steps of the same name included, untouched.               *)
C4_FinishCompletesOnlyFirst ==
    [][(Handles("StepFinished") /\ HasOpenSteps(messages))
        => /\ Len(messages') = Len(messages)
           /\ HasOpenSteps(messages')
           /\ CompletesOnlyFirst(Last(messages).steps[1], Last(messages').steps[1],
                                 DecodeName(lastEvent'.wire[1]))]_vars

----------------------------------------------------------------------------
\* no running step of that name on a last assistant message
Unmatched(T, stepName) == ~HasOpenSteps(T) \/ FirstRunning(Last(T).steps[1], stepName) = 0

(* C5: StepFinished for a name with no running step on the last assistant  *)
(* message (or with no such message) leaves the transcript, the error      *)
(* value and the run flags as they were.                                   *)
C5_UnmatchedFinishIsNoOp ==
    [][(Handles("StepFinished") /\ Unmatched(messages, DecodeName(lastEvent'.wire[1])))
        => /\ messages' = messages
           /\ error' = error
           /\ isRunning' = isRunning
           /\ isRunningRef' = isRunningRef]_vars

\* a finish for a step that is already completed, beside one still running
C5_Witness ==
    /\ Acted("StepFinished")
    /\ HasOpenSteps(prev)
    /\ Unmatched(prev, DecodeName(lastEvent.wire[1]))
    /\ \E k \in DOMAIN Last(prev).steps[1] :
          /\ Last(prev).steps[1][k].name = DecodeName(lastEvent.wire[1])
          /\ Last(prev).steps[1][k].status = "completed"
    /\ \E k \in DOMAIN Last(prev).steps[1] : Last(prev).steps[1][k].status = "running"
    /\ messages = prev

----------------------------------------------------------------------------
(* C6: a text event leaves the step list of every message as it was, the   *)
(* message it rewrites included; a StepStarted or StepFinished event       *)
(* leaves the content of every message as it was.                          *)
C6_ContentStepsIndependent ==
    /\ Acted("TextMessageContent")
          => /\ Len(messages) >= Len(prev)
             /\ \A i \in 1..Len(prev) : messages[i].steps = prev[i].steps
    /\ (Acted("StepStarted") \/ Acted("StepFinished"))
          => /\ Len(messages) >= Len(prev)
             /\ \A i \in 1..Len(prev) : messages[i].content = prev[i].content

\* the content of a message with two steps was rewritten
C6_Witness ==
    /\ Acted("TextMessageContent")
    /\ HasOpenSteps(prev)
    /\ Len(Last(prev).steps[1]) = 2
    /\ Last(messages).content # Last(prev).content
    /\ Last(messages).steps = Last(prev).steps

----------------------------------------------------------------------------
\* the text a content stands for when something is appended to it
TextOf(content) == IF content # None THEN content[1] ELSE <<>>

(* C7 as claimed: on a last assistant message the new content is the       *)
(* buffer if non-empty, else the old content with the delta appended if a  *)
(* delta is present, else the old content; the length does not change.     *)
C7_DeltaAlwaysAppended ==
    (Acted("TextMessageContent") /\ LastIsAssistant(prev))
        => /\ Len(messages) = Len(prev)
           /\ Last(messages).content =
                IF Truthy(lastEvent.buffer) THEN lastEvent.buffer
                ELSE IF lastEvent.delta # None
                     THEN Some(TextOf(Last(prev).content) \o lastEvent.delta[1])
                     ELSE Last(prev).content

(* C7 as amended: on a last assistant message the new content is the       *)
(* buffer if non-empty, else the old content with the delta appended if a  *)
(* delta is present and the old content is a string, else the old content; *)
(* the length does not change.                                             *)
C7_ResolutionOrder ==
    (Acted("TextMessageContent") /\ LastIsAssistant(prev))
        => /\ Len(messages) = Len(prev)
           /\ Last(messages).content =
                IF Truthy(lastEvent.buffer) THEN lastEvent.buffer
                ELSE IF lastEvent.delta # None /\ Last(prev).content # None
                     THEN Some(Last(prev).content[1] \o lastEvent.delta[1])
                     ELSE Last(prev).content

\* an empty buffer next to a delta: the delta is appended to the old text
C7_Witness ==
    /\ Acted("TextMessageContent")
    /\ LastIsAssistant(prev)
    /\ lastEvent.buffer = Some(<<>>)
    /\ lastEvent.delta = Some(<<"a">>)
    /\ Last(prev).content = Some(<<"H">>)
    /\ Last(messages).content = Some(<<"H", "a">>)

----------------------------------------------------------------------------
(* C8: with no open assistant message a text event appends exactly one     *)
(* assistant message without steps whose content is the buffer if it is    *)
(* non-empty, else the delta, else the empty string; the earlier messages  *)
(* stay as they were.                                                      *)
C8_NewAssistantMessage ==
    (Acted("TextMessageContent") /\ ~LastIsAssistant(prev))
        => /\ Len(messages) = Len(prev) + 1
           /\ SamePrefix(prev, messages, Len(prev))
           /\ Last(messages).role = "assistant"
           /\ Last(messages).steps = None
           /\ Last(messages).content =
                IF Truthy(lastEvent.buffer) THEN lastEvent.buffer
                ELSE IF lastEvent.delta # None THEN lastEvent.delta
                ELSE Some(<<>>)

\* after a user message, an empty buffer and a delta: the delta is the content
C8_Witness ==
    /\ Acted("TextMessageContent")
    /\ Len(prev) > 0
    /\ Last(prev).role = "user"
    /\ lastEvent.buffer = Some(<<>>)
    /\ lastEvent.delta = Some(<<"a">>)
    /\ Len(messages) = Len(prev) + 1
    /\ Last(messages).content = Some(<<"a">>)

----------------------------------------------------------------------------
(* C9: delta-only text events that start with no open assistant message    *)
(* leave one new assistant message whose content is the deltas joined in   *)
(* arrival order.                                                          *)
C9_DeltasAccumulate ==
    deltaLog # None
        => /\ Len(messages) = Len(prev) + 1
           /\ SamePrefix(prev, messages, Len(prev))
           /\ Last(messages).role = "assistant"
           /\ Last(messages).content = deltaLog

\* "a" then "b" arrived
C9_Witness ==
    /\ deltaLog = Some(<<"a", "b">>)
    /\ Last(messages).content = Some(<<"a", "b">>)

----------------------------------------------------------------------------
\* the step a StepStarted event stands for
StartedStep ==
    [name |-> DecodeName(lastEvent.wire[1]), text |-> DecodeText(lastEvent.wire[1]),
     status |-> "running"]

OldSteps(msg) == IF msg.steps # None THEN msg.steps[1] ELSE <<>>

(* C10: StepStarted appends the running step {decoded name, decoded text}  *)
(* at the end of the last assistant message's steps (a new list if it had  *)
(* none) without changing the length of the transcript; without a last     *)
(* assistant message it appends one assistant message with empty content   *)
(* and that single step.                                                   *)
C10_StepStartedAppends ==
    Acted("StepStarted")
        => IF LastIsAssistant(prev)
           THEN /\ Len(messages) = Len(prev)
                /\ SamePrefix(prev, messages, Len(prev) - 1)
                /\ Last(messages) =
                     [Last(prev) EXCEPT !.steps = Some(OldSteps(Last(prev)) \o <<StartedStep>>)]
           ELSE /\ Len(messages) = Len(prev) + 1
                /\ SamePrefix(prev, messages, Len(prev))
                /\ Last(messages).role = "assistant"
                /\ Last(messages).content = Some(<<>>)
                /\ Last(messages).steps = Some(<<StartedStep>>)

\* a step with a text joins a list that already holds a step
C10_Witness ==
    /\ Acted("StepStarted")
    /\ HasOpenSteps(prev)
    /\ lastEvent.wire = Some(<<"P", "|", "|", "|", "d">>)
    /\ Len(Last(messages).steps[1]) = Len(Last(prev).steps[1]) + 1
    /\ Last(Last(messages).steps[1]) = [name |-> <<"P">>, text |-> <<"d">>, status |-> "running"]

----------------------------------------------------------------------------
(* What a run's events stand for. *)

RECURSIVE StepsOfRun(_, _)
\* the steps started from event k on, each completed when a later
\* StepFinished of the run carries its name
StepsOfRun(log, k) ==
    IF k > Len(log) THEN <<>>
    ELSE IF log[k].op = "StepStarted"
         THEN <<[name |-> DecodeName(log[k].wire[1]),
                 text |-> DecodeText(log[k].wire[1]),
                 status |-> IF \E h \in (k + 1)..Len(log) :
                                  /\ log[h].op = "StepFinished"
                                  /\ DecodeName(log[h].wire[1]) = DecodeName(log[k].wire[1])
                            THEN "completed" ELSE "running"]>>
              \o StepsOfRun(log, k + 1)
         ELSE StepsOfRun(log, k + 1)

RECURSIVE TextOfRun(_, _)
\* the text resolved by the first k events: a non-empty buffer replaces it,
\* else a delta is appended to it
TextOfRun(log, k) ==
    IF k = 0 THEN <<>>
    ELSE LET old == TextOfRun(log, k - 1)
         IN  IF log[k].op # "TextMessageContent" THEN old
             ELSE IF Truthy(log[k].buffer) THEN log[k].buffer[1]
             ELSE IF log[k].delta # None THEN old \o log[k].delta[1]
             ELSE old

HasEvent(log, op) == \E k \in DOMAIN log : log[k].op = op

(* C11: when a run of step events followed by at least one text event has  *)
(* finished, the transcript is the one before the run followed by exactly  *)
(* one assistant message; its steps are the started steps in arrival       *)
(* order, completed where a StepFinished of that name arrived later, and   *)
(* its content is the resolved text.                                       *)
C11_OneRunOneMessage ==
    (Acted("RunFinished") /\ HasEvent(runLog, "TextMessageContent"))
        => /\ Len(messages) = Len(prev) + 1
           /\ SamePrefix(prev, messages, Len(prev))
           /\ Last(messages).role = "assistant"
           /\ Last(messages).content = Some(TextOfRun(runLog, Len(runLog)))
           /\ Last(messages).steps =
                 IF HasEvent(runLog, "StepStarted")
                 THEN Some(StepsOfRun(runLog, 1))
                 ELSE None

\* Scenario A: StepStarted("P|||d"), StepFinished("P"), a text event with
\* buffer "H", RunFinished
C11_Witness ==
    /\ Acted("RunFinished")
    /\ Len(runLog) = 3
    /\ runLog[1].op = "StepStarted" /\ runLog[1].wire = Some(<<"P", "|", "|", "|", "d">>)
    /\ runLog[2].op = "StepFinished" /\ runLog[2].wire = Some(<<"P">>)
    /\ runLog[3].op = "TextMessageContent" /\ runLog[3].buffer = Some(<<"H">>)
    /\ prev = <<>>
    /\ Len(messages) = 1
    /\ messages[1].content = Some(<<"H">>)
    /\ messages[1].steps =
          Some(<<[name |-> <<"P">>, text |-> <<"d">>, status |-> "completed"]>>)

----------------------------------------------------------------------------
\* the lifecycle handlers do what the run state machine says
LifecycleEffects ==
    /\ Handles("RunStarted")
          => isRunning' /\ isRunningRef' /\ streamingText' = None
    /\ (Handles("RunFinished") \/ Handles("RunError"))
          => ~isRunning' /\ ~isRunningRef' /\ streamingText' = None

IsLifecycleStep == Handles("RunStarted") \/ Handles("RunFinished") \/ Handles("RunError")

(* C12 as claimed: RunStarted sets the run state to running, RunFinished    *)
(* and RunError set it to not running, each leaves the streaming buffer    *)
(* none, and no other step changes the running flag given to callers.      *)
C12_FlagFollowsLifecycleOnly ==
    [][/\ LifecycleEffects
       /\ ~IsLifecycleStep => isRunning' = isRunning]_vars

(* C12 as amended: as above, but the running flag given to callers also    *)
(* becomes false when sendMessage catches a failure of the run; no other   *)
(* step changes it.                                                        *)
C12_RunLifecycle ==
    [][/\ LifecycleEffects
       /\ Handles("runAgentRejected") => ~isRunning'
       /\ (~IsLifecycleStep /\ ~Handles("runAgentRejected")) => isRunning' = isRunning]_vars

\* the run failed with an exception after RunStarted and before a terminal event
C12_Witness ==
    /\ Acted("runAgentRejected")
    /\ isRunningRef
    /\ ~isRunning

----------------------------------------------------------------------------
(* C13 as claimed: after RunError(m) the error value is m, for every m,    *)
(* the empty string included.                                              *)
C13_ErrorVerbatim ==
    Acted("RunError") => error = lastEvent.text

(* C13 as amended: after RunError(m) the error value is m when m is not    *)
(* empty, and the text "An error occurred" when m is empty.                *)
C13_ErrorSurfaced ==
    Acted("RunError")
        => error = IF lastEvent.text # Some("")
                   THEN lastEvent.text
                   ELSE Some("An error occurred")

\* RunError("boom") during a run that has streamed a message
C13_Witness ==
    /\ Acted("RunError")
    /\ lastEvent.text = Some("boom")
    /\ error = Some("boom")
    /\ Len(messages) > 0

----------------------------------------------------------------------------
(* C14: RunError leaves the transcript as it was: the same messages with   *)
(* the same contents and steps; so do RunStarted and RunFinished.          *)
C14_LifecycleKeepsTranscript ==
    [][IsLifecycleStep => messages' = messages]_vars

\* RunError after a message with text and a step had been streamed
C14_Witness ==
    /\ Acted("RunError")
    /\ HasOpenSteps(messages)
    /\ Last(messages).content = Some(<<"H">>)
    /\ error # None

----------------------------------------------------------------------------
(* C15: sendMessage called while the running flag is true changes          *)
(* nothing: no message is appended to the transcript or to the agent's     *)
(* list, no run is started, and the run flags, the error value and the     *)
(* streaming buffer stay as they were.                                     *)
C15_SendWhileRunningIsNoOp ==
    [][(Handles("sendMessage") /\ isRunning)
        => /\ ~lastEvent'.accepted
           /\ UNCHANGED <<messages, agentMessages, runs, isRunning, isRunningRef,
                          error, streamingText>>]_vars

\* a second submit during a run that has streamed text
C15_Witness ==
    /\ Acted("sendMessage")
    /\ ~lastEvent.accepted
    /\ isRunning
    /\ runs = 1
    /\ streamingText # None
    /\ LastIsAssistant(messages)

----------------------------------------------------------------------------
(* C16: in every reachable state at most one runAgent() invocation is      *)
(* outstanding: a submission made while a run is in flight is rejected.    *)
C16_AtMostOneRun == runs <= 1

----------------------------------------------------------------------------
(* C17: an accepted sendMessage(content) leaves the previous transcript as *)
(* it was (same messages, order, contents and step lists), followed by one *)
(* user message with that content, and starts one run.                     *)
C17_SendAppendsUserMessage ==
    (Acted("sendMessage") /\ lastEvent.accepted)
        => /\ Len(messages) = Len(prev) + 1
           /\ SamePrefix(prev, messages, Len(prev))
           /\ Last(messages).role = "user"
           /\ Last(messages).content = lastEvent.text
           /\ runs = 1

----------------------------------------------------------------------------
\* the transcript puts no two ids the other way round than a transcript before it
OrderKept == Agree(orderLog.before, Pairs(messages))

----------------------------------------------------------------------------
(* C19: no handler removes a message: every id in the transcript before a  *)
(* step is in the transcript after it, and the transcript does not get     *)
(* shorter.                                                                *)
C19_NoDeletion ==
    [][/\ Len(messages') >= Len(messages)
       /\ Ids(messages) \subseteq Ids(messages')]_vars

----------------------------------------------------------------------------
(* C20: in every reachable state no two messages of the transcript have    *)
(* the same non-empty, non-placeholder id; the authoritative lists have    *)
(* distinct ids and the clock need not advance between two handlers.       *)
C20_UniqueIds ==
    \A i, j \in 1..Len(messages) :
       (i # j /\ IsRealId(messages[i].id)) => messages[i].id # messages[j].id

----------------------------------------------------------------------------
\* this step is a text, StepStarted or StepFinished event
IsStreamingStep ==
    Handles("TextMessageContent") \/ Handles("StepStarted") \/ Handles("StepFinished")

(* C21: a text, StepStarted or StepFinished event that arrives while no    *)
(* run is running (neither copy of the running flag is set) changes no     *)
(* message of the transcript and appends none.                             *)
C21_StreamingOnlyWhileRunning ==
    [][(IsStreamingStep /\ ~isRunning /\ ~isRunningRef) => messages' = messages]_vars

----------------------------------------------------------------------------
\* the step the last StepStarted event put at the end of the last message
DecodedStep == Last(Last(messages).steps[1])

\* the step shows the name and the text that were encoded
RoundTrip == DecodedStep.name = encoded[1][1] /\ DecodedStep.text = encoded[1][2]

EndsWithPipe(f) == Len(f) > 0 /\ f[Len(f)] = "|"

(* C22 as claimed: a name and a description without the separator, joined  *)
(* by the separator and decoded by the StepStarted handler, are the name   *)
(* and the description again.                                              *)
C22_RoundTripForAll ==
    (Acted("StepStarted") /\ encoded # None) => RoundTrip

(* C22 as amended: the same for a name that, besides not containing the    *)
(* separator, does not end with the separator's character.                 *)
C22_RoundTripUnlessNameEndsWithPipe ==
    (Acted("StepStarted") /\ encoded # None /\ ~EndsWithPipe(encoded[1][1])) => RoundTrip

\* the name "a" and the text "|a" came back from "a||||a"
C22_Witness ==
    /\ Acted("StepStarted")
    /\ encoded = Some(<< <<"a">>, <<"|", "a">> >>)
    /\ lastEvent.wire = Some(<<"a", "|", "|", "|", "|", "a">>)
    /\ DecodedStep.name = <<"a">>
    /\ DecodedStep.text = <<"|", "a">>

----------------------------------------------------------------------------
\* the wire field is the name alone, or the name, the separator and more,
\* with no separator beginning earlier
CarriesName(wire, name) ==
    \/ wire = name /\ IndexOfSeparator(wire) = 0
    \/ /\ Len(wire) >= Len(name) + 3
       /\ SubSeq(wire, 1, Len(name)) = name
       /\ SubSeq(wire, Len(name) + 1, Len(name) + 3) = SEPARATOR
       /\ IndexOfSeparator(name \o <<"|", "|">>) = 0

(* C23: every wire field decodes: StepStarted puts a running step with a   *)
(* name and a description at the end of the last message, and a field      *)
(* without the separator gives (field, "").  StepFinished matches on the   *)
(* name part alone: a running step whose name is the name part of the      *)
(* finish field, whatever follows the separator, becomes completed.        *)
C23_DecodeIsTotal ==
    [][/\ Handles("StepStarted")
          => LET wire == lastEvent'.wire[1]
                 step == Last(Last(messages').steps[1])
             IN  /\ step.name \in Seq(Alphabet)
                 /\ step.text \in Seq(Alphabet)
                 /\ step.status = "running"
                 /\ IndexOfSeparator(wire) = 0 => step.name = wire /\ step.text = <<>>
       /\ (Handles("StepFinished") /\ HasOpenSteps(messages))
          => /\ HasOpenSteps(messages')
             /\ \A k \in DOMAIN Last(messages).steps[1] :
                   CarriesName(lastEvent'.wire[1], Last(messages).steps[1][k].name)
                      => Last(messages').steps[1][k].status = "completed"]_vars

\* the running step "a" was completed by the finish field "a|||a"
C23_Witness ==
    /\ Acted("StepFinished")
    /\ lastEvent.wire = Some(<<"a", "|", "|", "|", "a">>)
    /\ Last(messages).steps = Some(<<[name |-> <<"a">>, text |-> <<>>, status |-> "completed"]>>)

----------------------------------------------------------------------------
(* C24: a messages-changed notification that arrives while a run is in     *)
(* progress leaves the locally streamed transcript as it is; the agent's   *)
(* list replaces it only when no run is in progress.                       *)
C24_NoOverwriteWhileStreaming ==
    [][(Handles("MessagesChanged") /\ isRunningRef /\ isRunning)
          => messages' = messages]_vars

----------------------------------------------------------------------------
\* text is s without the whitespace at its two ends
IsTrimOf(text, s) ==
    /\ text # <<>>
    /\ text[1] \notin Whitespace
    /\ text[Len(text)] \notin Whitespace
    /\ \E i \in 1..Len(s) :
          /\ i + Len(text) - 1 <= Len(s)
          /\ text = SubSeq(s, i, i + Len(text) - 1)
          /\ \A k \in 1..Len(s) :
                (k < i \/ k > i + Len(text) - 1) => s[k] \in Whitespace

HasText(s) == \E k \in 1..Len(s) : s[k] \notin Whitespace

(* C25: onSend is called only with the input's text trimmed, which is not  *)
(* empty, and only when the input is not disabled, which it is while a run *)
(* is running; after the call the input is empty.  Enter without Shift     *)
(* sends whenever that rule allows it; Shift+Enter never sends and leaves  *)
(* the text.                                                               *)
C25_SendingRule ==
    /\ inputLog.running => inputLog.disabled
    /\ inputLog.sent # None
          => /\ IsTrimOf(inputLog.sent[1], inputLog.before)
             /\ ~inputLog.disabled
             /\ input = <<>>
             /\ messages # <<>>
             /\ Last(messages).role = "user"
             /\ Last(messages).content = inputLog.sent
    /\ (/\ inputLog.op = "handleKeyPress"
        /\ inputLog.key = "Enter"
        /\ ~inputLog.shiftKey
        /\ ~inputLog.disabled
        /\ HasText(inputLog.before))
          => inputLog.sent # None
    /\ (inputLog.op = "handleKeyPress" /\ inputLog.shiftKey)
          => inputLog.sent = None /\ input = inputLog.before

\* Enter on " a " has sent "a", which is now the last message
C25_Witness ==
    /\ inputLog.op = "handleKeyPress"
    /\ inputLog.before = <<" ", "a", " ">>
    /\ inputLog.sent = Some(<<"a">>)
    /\ input = <<>>
    /\ Last(messages).content = Some(<<"a">>)

----------------------------------------------------------------------------
\* U is L, message by message, but for the steps field
SameButSteps(U, L) ==
    /\ Len(U) = Len(L)
    /\ \A i \in 1..Len(L) :
          /\ U[i].id = L[i].id
          /\ U[i].role = L[i].role
          /\ U[i].content = L[i].content

----------------------------------------------------------------------------
\* the previous messages that carry steps and have that id
Owners(T, id) == { i \in 1..Len(T) : T[i].steps # None /\ T[i].id = id }

\* the steps field of the first assistant message of T
FirstAssistantSteps(T) ==
    LET A == { i \in 1..Len(T) : T[i].role = "assistant" }
    IN  IF A = {} THEN None ELSE T[CHOOSE i \in A : \A h \in A : i <= h].steps

\* what the lookup by position and the tail rule give the first
\* authoritative message when it is an assistant message without an id match
ByPositionOnly(T, L, running) ==
    IF FirstAssistantSteps(T) # None THEN FirstAssistantSteps(T)
    ELSE IF running /\ Len(L) = 1 /\ HasOpenSteps(T) THEN Last(T).steps
    ELSE None

(* C27: after a merge an authoritative message whose id is the non-empty,  *)
(* non-placeholder id of a previous message that carries steps has exactly *)
(* that message's steps, whatever its role and position.  An empty or      *)
(* placeholder id is never matched: an authoritative user message with     *)
(* such an id has no steps, and an authoritative assistant message with    *)
(* such an id in first position has what its position gives it, even when  *)
(* a previous message with steps has the same id.                          *)
C27_IdentityFirst ==
    Acted("MessagesChanged")
       => \A j \in 1..Len(agentMessages) :
             LET m == agentMessages[j]
             IN  /\ IsRealId(m.id)
                       => \A i \in Owners(prev, m.id) : messages[j].steps = prev[i].steps
                 /\ (~IsRealId(m.id) /\ m.role = "user")
                       => messages[j].steps = None
                 /\ (~IsRealId(m.id) /\ m.role = "assistant" /\ j = 1)
                       => messages[j].steps = ByPositionOnly(prev, agentMessages, isRunningRef)

\* the second previous message, a user message with steps, has the id and
\* the steps that the first authoritative message, an assistant message, got
C27_Witness ==
    /\ Acted("MessagesChanged")
    /\ Len(prev) = 2
    /\ prev[1].role = "assistant"
    /\ prev[1].steps = StepsA
    /\ prev[2].role = "user"
    /\ prev[2].steps = StepsB
    /\ IsRealId(prev[2].id)
    /\ Len(agentMessages) = 2
    /\ agentMessages[1].id = prev[2].id
    /\ agentMessages[1].role = "assistant"
    /\ messages[1].steps = StepsB

----------------------------------------------------------------------------
\* m has the real id of a previous message that carries steps
IdMatched(T, m) == IsRealId(m.id) /\ Owners(T, m.id) # {}

\* the assistant messages of L before position j that were looked up by position
PositionOf(T, L, j) ==
    Cardinality({ h \in 1..(j - 1) : L[h].role = "assistant" /\ ~IdMatched(T, L[h]) })

\* no assistant message of T that carries steps is the k-th (from 0)
NoStepsAt(T, k) ==
    \A i \in 1..Len(T) :
       (T[i].role = "assistant" /\ AssistantIndex(T, i) = k) => T[i].steps = None

\* the last messages of T and L are assistant messages, that of T carries
\* steps, and that of L gets none by id or by position
TailCase(T, L) ==
    /\ Len(L) > 0
    /\ HasOpenSteps(T)
    /\ Last(L).role = "assistant"
    /\ ~IdMatched(T, Last(L))
    /\ NoStepsAt(T, PositionOf(T, L, Len(L)))

(* C28: after a merge in which the previous and the authoritative last     *)
(* messages are assistant messages, the previous one carries steps and the *)
(* authoritative one got none by id or by position, the last message has   *)
(* exactly the steps of the previous last message when the run is running, *)
(* and no steps when it is not.                                            *)
C28_TailPreservation ==
    (Acted("MessagesChanged") /\ TailCase(prev, agentMessages))
       => Last(messages).steps = IF isRunningRef THEN Last(prev).steps ELSE None

\* running: the only authoritative message took over the steps of the
\* second previous message
C28_Witness ==
    /\ Acted("MessagesChanged")
    /\ TailCase(prev, agentMessages)
    /\ isRunningRef
    /\ Len(prev) = 2
    /\ Len(agentMessages) = 1
    /\ prev[2].steps = StepsB
    /\ messages[1].steps = StepsB

----------------------------------------------------------------------------
\* every handler that arrived has been run by a render
Rendered == pending = <<>> /\ arrivals.count > 0

----------------------------------------------------------------------------
\* the three events that write the open message
ReducerOps == { "TextMessageContent", "StepStarted", "StepFinished" }

(* C30: after a text, StepStarted or StepFinished event every message of   *)
(* the previous transcript but its last one is where it was, with the same *)
(* id, role, content and steps; the transcript is as long as before or one *)
(* message longer, and as long as before after StepFinished.  When a       *)
(* message is appended, the previous last message is as it was as well.    *)
C30_OnlyLastIsWritten ==
    lastEvent.op \in ReducerOps
       => /\ SamePrefix(prev, messages, Len(prev) - 1)
          /\ Len(messages) \in { Len(prev), Len(prev) + 1 }
          /\ Len(messages) = Len(prev) + 1 => SamePrefix(prev, messages, Len(prev))
          /\ Acted("StepFinished") => Len(messages) = Len(prev)

\* a step of the second message was completed; the first message, which
\* has a step list of its own, is as it was
C30_Witness ==
    /\ Acted("StepFinished")
    /\ Len(prev) = 2
    /\ prev[1].steps # None
    /\ messages[1] = prev[1]
    /\ messages[2] # prev[2]

----------------------------------------------------------------------------
(* C31: in a merge, whenever the lookup by position is used for an         *)
(* authoritative assistant message, the counter it uses is the number of   *)
(* assistant messages before that message in the authoritative list.       *)
C31_CountersAligned ==
    Acted("MessagesChanged")
       => \A j \in 1..Len(agentMessages) :
             UsesIndex(prev, agentMessages[j])
                => CurrentAssistantIndex(prev, agentMessages, j)
                      = AssistantIndex(agentMessages, j)

----------------------------------------------------------------------------
\* the messages of T that carry the step list S
Carrying(T, S) == { i \in 1..Len(T) : T[i].steps = S }

\* L[j] has a counterpart in T: a message with its id, or, for an assistant
\* message, an assistant message with steps at the same index among
\* assistant messages
HasCounterpart(T, L, j) ==
    \/ \E i \in 1..Len(T) : T[i].id = L[j].id
    \/ /\ L[j].role = "assistant"
       /\ \E i \in Carriers(T) : AssistantIndex(T, i) = AssistantIndex(L, j)

(* C32: after a merge an authoritative message without a counterpart in    *)
(* the previous transcript has no steps, and no step list is on more       *)
(* messages of the merged transcript than carried it before.               *)
C32_NoStepsOnWrongMessage ==
    Acted("MessagesChanged")
       => /\ \A j \in 1..Len(agentMessages) :
                ~HasCounterpart(prev, agentMessages, j) => messages[j].steps = None
          /\ \A j \in 1..Len(messages) :
                messages[j].steps # None
                   => Cardinality(Carrying(messages, messages[j].steps))
                         <= Cardinality(Carrying(prev, messages[j].steps))

----------------------------------------------------------------------------
(* C33: merging the list that was merged last once more, in the same run   *)
(* state, gives the transcript the first merge gave.                       *)
C33_MergeIsIdempotent ==
    [][(/\ Acted("MessagesChanged")
        /\ Handles("MessagesChanged")
        /\ agentMessages' = agentMessages
        /\ isRunningRef' = isRunningRef)
          => messages' = messages]_vars

----------------------------------------------------------------------------
(* C34: after a merge every step list on a message of the transcript is    *)
(* the step list of some message of the previous transcript, step by step: *)
(* same order, names, descriptions and statuses.                           *)
C34_MergeAltersNoStep ==
    Acted("MessagesChanged")
       => \A j \in 1..Len(messages) :
             messages[j].steps # None
                => \E i \in 1..Len(prev) : prev[i].steps = messages[j].steps

\* two messages with steps were merged into two authoritative messages;
\* the second has its two steps in their order, the first still running
C34_Witness ==
    /\ Acted("MessagesChanged")
    /\ Len(prev) = 2
    /\ prev[1].steps = StepsA
    /\ prev[2].steps = StepsAB
    /\ Len(messages) = 2
    /\ messages[1].steps = StepsA
    /\ messages[2].steps = StepsAB
    /\ messages[2].content # prev[2].content

----------------------------------------------------------------------------
(* C35: in every reachable state the flag onMessagesChanged reads          *)
(* (isRunningRef) equals the running flag the hook returns (isRunning).    *)
C35_FlagsAgree == isRunningRef = isRunning

----------------------------------------------------------------------------
\* the message of what was thrown, "Unknown error" when it was not an Error
ThrownText(e) == IF e.text # None THEN e.text[1] ELSE "Unknown error"

(* C36: when runAgent() rejects, sendMessage catches it: the error becomes *)
(* the message of what was thrown, or "Unknown error", isRunning becomes   *)
(* false and the transcript is left as it is, so a user message that was   *)
(* just appended is still its last message; a sendMessage that follows is  *)
(* accepted and appends its user message.                                  *)
C36_FailingRunIsCaught ==
    [][/\ Handles("runAgentRejected")
          => /\ error' = Some(ThrownText(lastEvent'))
             /\ ~isRunning'
             /\ messages' = messages
             /\ (Acted("sendMessage") /\ lastEvent.accepted)
                   => /\ Last(messages').role = "user"
                      /\ Last(messages').content = lastEvent.text
       /\ (Acted("runAgentRejected") /\ Handles("sendMessage"))
          => /\ lastEvent'.accepted
             /\ Len(messages') = Len(agentMessages) + 1
             /\ Last(messages').role = "user"
             /\ Last(messages').content = lastEvent'.text
             /\ error' = None]_vars

\* a run that had started was rejected with an Error: its message is the
\* error, the run is over for callers, the transcript still has messages
C36_Witness ==
    /\ Acted("runAgentRejected")
    /\ error = Some("boom")
    /\ ~isRunning
    /\ isRunningRef
    /\ messages # <<>>

----------------------------------------------------------------------------
(* C37: in every reachable state in which isRunning is false the streaming *)
(* buffer returned to callers (streamingText) is null.                     *)
C37_NoStaleStreamingText == ~isRunning => streamingText = None

----------------------------------------------------------------------------
(* C38: in every reachable state in which isRunning is true the error      *)
(* returned to callers is null.                                            *)
C38_NoErrorWhileRunning == isRunning => error = None

\* the run of a sendMessage has started and text is streaming
C38_Witness ==
    /\ isRunning
    /\ error = None
    /\ runs > 0
    /\ Acted("TextMessageContent")
    /\ streamingText # None

====
